---- MODULE Spec2Model ----
(***************************************************************************)
(* A model of the RustedBrains transpiler (akramoo/RustedBrains): the      *)
(* Brainfuck code generator of src/src/codegen.rs, together with a         *)
(* reference Brainfuck machine on which the emitted code is executed.      *)
(*                                                                         *)
(* The generator's methods take `&mut self`; they are modelled as          *)
(* operators from a generator record g to the generator record after the   *)
(* call.  A method that also returns a value (an address) returns the      *)
(* value its code returns, read from g before the call (allocate_variable, *)
(* get_temp_addr) or paired with the new record (evaluate_expression).     *)
(***************************************************************************)
EXTENDS Integers, Sequences, FiniteSets, TLC

VARIABLES
    variables,       \* BrainfuckGenerator.variables : name -> cell address
    memory_ptr,      \* BrainfuckGenerator.memory_ptr
    output,          \* BrainfuckGenerator.output, a sequence of characters
    next_temp_addr,  \* BrainfuckGenerator.next_temp_addr
    let_log,         \* history: addresses returned by allocate_variable, in order
    temp_clash,      \* history: temps that were a bound variable's address when issued
    no_arm,          \* history: operators evaluate_expression's match had no arm for
    set_value_log,   \* history: the calls of set_value and the generator they found
    stmts,           \* number of top-level statements lowered so far
    returned,        \* history: the program and the string of each call of generate
    code,            \* machine: the Brainfuck program being executed
    ip,              \* machine: index of the next instruction (1-based)
    tape,            \* machine: cell contents, a function on the cells written
    head,            \* machine: runtime head position
    stdout,          \* machine: bytes written by '.'
    status,          \* machine: "idle", "running", "halted" or "underflow"
    job,             \* machine: what is being executed and what it was built from
    lexer,           \* Lexer: input (the characters not yet read), position, current_char
    tokens,          \* the token vector: tokenize's `tokens`, then Parser.tokens
    lexed,           \* what tokenize returned: "none" yet, Ok or Err(position)
    parsed           \* what parse returned: "none" yet, Ok(program) or Err(position)

genVars ==
    <<variables, memory_ptr, output, next_temp_addr, let_log, temp_clash, no_arm,
      set_value_log, stmts, returned>>
runVars == <<code, ip, tape, head, stdout, status, job>>
frontVars == <<lexer, tokens, lexed, parsed>>
vars == <<variables, memory_ptr, output, next_temp_addr, let_log, temp_clash, no_arm,
          set_value_log, stmts, returned,
          code, ip, tape, head, stdout, status, job, lexer, tokens, lexed, parsed>>

-----------------------------------------------------------------------------
(* Bounds of the exploration.                                              *)

\* Number of top-level statements lowered in one compilation.
MaxStmts == 2

\* Largest low address a primitive is applied to in isolation.
MaxAddr == 1

-----------------------------------------------------------------------------
(* Program constants.                                                      *)

\* next_temp_addr: 100, "Start temp variables at cell 100".
TempBase == 100

-----------------------------------------------------------------------------
(* AST (src/src/ast.rs).                                                   *)

BinaryOp == {"Add", "Sub", "Mul", "Div", "Equal", "NotEqual", "Less", "Greater"}

Number(n) == [type |-> "Number", n |-> n]

Variable(name) == [type |-> "Variable", name |-> name]

Binary(left, operator, right) ==
    [type |-> "Binary", left |-> left, operator |-> operator, right |-> right]

let_stmt(name, mutable, value) ==
    [type |-> "Let", name |-> name, mutable |-> mutable, value |-> value]

assign(name, value) == [type |-> "Assign", name |-> name, value |-> value]

print(expr) == [type |-> "Print", value |-> expr]

if_stmt(condition, body) == [type |-> "If", condition |-> condition, body |-> body]

while_stmt(condition, body) == [type |-> "While", condition |-> condition, body |-> body]

-----------------------------------------------------------------------------
(* The generator (src/src/codegen.rs).                                     *)

\* n copies of the character c: "c".repeat(n).
Repeat(c, n) == [i \in 1..n |-> c]

\* self.output.push_str(s) / self.output.push(c)
Emit(g, s) == [g EXCEPT !.output = @ \o s]

\* BrainfuckGenerator::new()
new ==
    [variables |-> <<>>, memory_ptr |-> 0, output |-> <<>>,
     next_temp_addr |-> TempBase, let_log |-> <<>>, temp_clash |-> {}, no_arm |-> {},
     set_value_log |-> {}]

\* The addresses bound in the variables map.
BoundAddrs(g) == {g.variables[n] : n \in DOMAIN g.variables}

\* HashMap::insert: bind name to addr, replacing an earlier binding.
MapInsert(m, name, addr) ==
    [k \in DOMAIN m \cup {name} |-> IF k = name THEN addr ELSE m[k]]

\* allocate_variable(name); the address returned is g.memory_ptr before the call.
allocate_variable(g, name) ==
    [g EXCEPT !.variables = MapInsert(@, name, g.memory_ptr),
              !.memory_ptr = @ + 1,
              !.let_log = Append(@, g.memory_ptr)]

\* get_temp_addr without `self.next_temp_addr += 1`: every temp is the same cell.
get_temp_addr_stuck(g) ==
    [g EXCEPT !.temp_clash = IF g.next_temp_addr \in BoundAddrs(g)
                             THEN @ \cup {g.next_temp_addr} ELSE @]

\* get_temp_addr(); the address returned is g.next_temp_addr before the call.
get_temp_addr(g) ==
    [g EXCEPT !.next_temp_addr = @ + 1,
              !.temp_clash = IF g.next_temp_addr \in BoundAddrs(g)
                             THEN @ \cup {g.next_temp_addr} ELSE @]

\* A call self.method(args) made from inside a method.  Every method below is
\* one definition; call(g, method, args) is the definition of that name applied
\* to g and args (see its definition after visit_stmt).
RECURSIVE call(_, _, _)

move_to(g, target) ==
    LET moved == IF target > g.memory_ptr
                 THEN Emit(g, Repeat(">", target - g.memory_ptr))
                 ELSE IF target < g.memory_ptr
                      THEN Emit(g, Repeat("<", g.memory_ptr - target))
                      ELSE g
    IN  [moved EXCEPT !.memory_ptr = target]

\* clear_cell pushing "[-": the loop is never closed.
clear_cell_unclosed(g) == Emit(g, <<"[", "-">>)

\* clear_cell pushing "[0]": a character that is no Brainfuck instruction.
clear_cell_zero(g) == Emit(g, <<"[", "0", "]">>)

\* clear_cell pushing nothing: the cell keeps its content.
clear_cell_skipped(g) == g

\* clear_cell pushing "-": the cell is decremented once.
clear_cell_decrement(g) == Emit(g, <<"-">>)

clear_cell(g) == Emit(g, <<"[", "-", "]">>)

\* self.move_to(target); self.output.push_str(s)
At(g, target, s) == Emit(call(g, "move_to", <<target>>), s)

\* (value as f64).sqrt().round() as i32: the square root rounded to nearest.
loop_count_rounded(value) ==
    CHOOSE q \in 0..value : (2 * q - 1) * (2 * q - 1) <= 4 * value
                            /\ (2 * q + 1) * (2 * q + 1) > 4 * value

\* (value as f64).sqrt() as i32: the integer square root, rounded down.
loop_count_of(value) ==
    CHOOSE q \in 0..value : q * q <= value /\ (q + 1) * (q + 1) > value

set_value(g, addr, value) ==
    LET \* history: the call, whether addr is the temp issued last, and the
        \* addresses bound when it is made
        g0 == [g EXCEPT !.set_value_log =
                   @ \cup {[addr |-> addr, value |-> value,
                            latest |-> addr = g.next_temp_addr - 1,
                            bound |-> BoundAddrs(g)]}]
        g1 == call(call(g0, "move_to", <<addr>>), "clear_cell", <<>>)
        loop_count == loop_count_of(value)
        remainder == value - (loop_count * loop_count)
        \* Set up loop counter
        g2 == Emit(Emit(g1, Repeat("+", loop_count)), <<"[">>)
        g3 == At(g2, addr + 1, Repeat("+", loop_count))
        g4 == At(g3, addr, <<"-", "]">>)
        \* Move the result back and add remainder
        g5 == At(g4, addr + 1, <<"[", "-">>)
        g6 == At(g5, addr, <<"+">>)
        g7 == At(g6, addr + 1, <<"]">>)
        \* Add remainder
        g8 == At(g7, addr, IF remainder > 0 THEN Repeat("+", remainder) ELSE <<>>)
    IN  IF value > 0
        THEN IF value >= 10 THEN g8 ELSE Emit(g1, Repeat("+", value))
        ELSE IF value < 0 THEN Emit(g1, Repeat("-", -value)) ELSE g1

copy_value(g, from, to) ==
    LET temp == g.next_temp_addr
        g0 == get_temp_addr(g)
        \* Clear destination and temp
        g1 == call(call(g0, "move_to", <<to>>), "clear_cell", <<>>)
        g2 == call(call(g1, "move_to", <<temp>>), "clear_cell", <<>>)
        \* Copy from source to both destination and temp
        g3 == At(g2, from, <<"[", "-">>)
        g4 == At(g3, to, <<"+">>)
        g5 == At(g4, temp, <<"+">>)
        g6 == At(g5, from, <<"]">>)
        \* Restore source from temp
        g7 == At(g6, temp, <<"[", "-">>)
        g8 == At(g7, from, <<"+">>)
    IN  At(g8, temp, <<"]">>)

add_values(g, result_addr, left_addr, right_addr) ==
    LET \* Copy left to result
        g1 == call(g, "copy_value", <<left_addr, result_addr>>)
        \* Add right to result
        temp == g1.next_temp_addr
        g2 == call(get_temp_addr(g1), "copy_value", <<right_addr, temp>>)
        g3 == At(g2, temp, <<"[", "-">>)
        g4 == At(g3, result_addr, <<"+">>)
    IN  At(g4, temp, <<"]">>)

\* sub_values whose drain increments the result, as add_values does.
sub_values_adding(g, result_addr, left_addr, right_addr) ==
    add_values(g, result_addr, left_addr, right_addr)

sub_values(g, result_addr, left_addr, right_addr) ==
    LET \* Copy left to result
        g1 == call(g, "copy_value", <<left_addr, result_addr>>)
        \* Subtract right from result
        temp == g1.next_temp_addr
        g2 == call(get_temp_addr(g1), "copy_value", <<right_addr, temp>>)
        g3 == At(g2, temp, <<"[", "-">>)
        g4 == At(g3, result_addr, <<"-">>)
    IN  At(g4, temp, <<"]">>)

compare_equal(g, result_addr, left_addr, right_addr) ==
    LET temp1 == g.next_temp_addr
        temp2 == g.next_temp_addr + 1
        g0 == get_temp_addr(get_temp_addr(g))
        \* Copy values to temp locations
        g1 == call(g0, "copy_value", <<left_addr, temp1>>)
        g2 == call(g1, "copy_value", <<right_addr, temp2>>)
        \* Clear result, assume equal initially
        g3 == Emit(call(call(g2, "move_to", <<result_addr>>), "clear_cell", <<>>), <<"+">>)
        \* Subtract temp2 from temp1
        g4 == At(g3, temp2, <<"[", "-">>)
        g5 == At(g4, temp1, <<"-">>)
        g6 == At(g5, temp2, <<"]">>)
        \* If temp1 is not zero, values were not equal
        g7 == At(g6, temp1, <<"[">>)
        g8 == At(g7, result_addr, <<"-">>)
    IN  At(g8, temp1, <<"[", "-", "]", "]">>)

\* A method that returns an address: the generator it leaves and the address.
Ret(g, addr) == [g |-> g, addr |-> addr]

\* The NotEqual arm without the flip: the result of compare_equal is kept.
not_equal_unflipped(g, result_addr, left_addr, right_addr) ==
    call(g, "compare_equal", <<result_addr, left_addr, right_addr>>)

\* The NotEqual arm of evaluate_expression.
not_equal(g, result_addr, left_addr, right_addr) ==
    LET g0 == call(g, "compare_equal", <<result_addr, left_addr, right_addr>>)
        \* Flip the result
        temp == g0.next_temp_addr
        g1 == At(get_temp_addr(g0), temp, <<"+">>)
        g2 == At(g1, result_addr, <<"[", "-">>)
        g3 == At(g2, temp, <<"-">>)
        g4 == At(g3, result_addr, <<"]">>)
        g5 == At(g4, temp, <<"[", "-">>)
        g6 == At(g5, result_addr, <<"+">>)
    IN  At(g6, temp, <<"]">>)

evaluate_expression(g, expr) ==
    CASE expr.type = "Number" ->
           Ret(call(get_temp_addr(g), "set_value", <<g.next_temp_addr, expr.n>>),
               g.next_temp_addr)
      [] expr.type = "Variable" ->
           IF expr.name \in DOMAIN g.variables
           THEN Ret(g, g.variables[expr.name])
           ELSE \* Error: undefined variable - create a zero cell
                Ret(call(get_temp_addr(g), "set_value", <<g.next_temp_addr, 0>>),
                    g.next_temp_addr)
      [] expr.type = "Binary" ->
           LET l == call(g, "evaluate_expression", <<expr.left>>)
               r == call(l.g, "evaluate_expression", <<expr.right>>)
               result_addr == r.g.next_temp_addr
               g0 == get_temp_addr(r.g)
               operands == <<result_addr, l.addr, r.addr>>
               operator == expr.operator
           IN  CASE operator = "Add" -> Ret(call(g0, "add_values", operands), result_addr)
                 [] operator = "Sub" -> Ret(call(g0, "sub_values", operands), result_addr)
                 [] operator = "Equal" ->
                      Ret(call(g0, "compare_equal", operands), result_addr)
                 [] operator = "NotEqual" ->
                      Ret(not_equal(g0, result_addr, l.addr, r.addr), result_addr)
                 [] operator = "Less" ->
                      \* Simplified: copy left value
                      Ret(call(g0, "copy_value", <<l.addr, result_addr>>), result_addr)
                 [] operator = "Greater" ->
                      \* Simplified: copy left value
                      Ret(call(g0, "copy_value", <<l.addr, result_addr>>), result_addr)
                 [] operator = "Mul" \/ operator = "Div" ->
                      \* `match operator` has no arm for Mul and Div: nothing is
                      \* there to run; the operator is recorded in no_arm.
                      Ret([g0 EXCEPT !.no_arm = @ \cup {operator}], result_addr)

evaluate_condition(g, condition) ==
    IF condition.type = "Binary" /\ condition.operator = "Equal"
    THEN LET l == call(g, "evaluate_expression", <<condition.left>>)
             r == call(l.g, "evaluate_expression", <<condition.right>>)
             result_addr == r.g.next_temp_addr
         IN  Ret(call(get_temp_addr(r.g), "compare_equal",
                      <<result_addr, l.addr, r.addr>>), result_addr)
    ELSE IF condition.type = "Binary" /\ condition.operator = "Greater"
         THEN \* Simplified: just evaluate left side
              call(g, "evaluate_expression", <<condition.left>>)
         ELSE call(g, "evaluate_expression", <<condition>>)

\* for stmt in body { self.visit_stmt(stmt); }
RECURSIVE visit_body(_, _)
visit_body(g, body) ==
    IF body = <<>>
    THEN g
    ELSE visit_body(call(g, "visit_stmt", <<Head(body)>>), Tail(body))

visit_stmt(g, stmt) ==
    CASE stmt.type = "Let" ->
           LET addr == g.memory_ptr
               v == call(allocate_variable(g, stmt.name), "evaluate_expression",
                         <<stmt.value>>)
           IN  call(v.g, "copy_value", <<v.addr, addr>>)
      [] stmt.type = "Assign" ->
           IF stmt.name \in DOMAIN g.variables
           THEN LET v == call(g, "evaluate_expression", <<stmt.value>>)
                IN  call(v.g, "copy_value", <<v.addr, g.variables[stmt.name]>>)
           ELSE g
      [] stmt.type = "Print" ->
           LET v == call(g, "evaluate_expression", <<stmt.value>>)
           IN  At(v.g, v.addr, <<".">>)
      [] stmt.type = "If" ->
           LET c == call(g, "evaluate_condition", <<stmt.condition>>)
               g1 == At(c.g, c.addr, <<"[">>)
               g2 == visit_body(g1, stmt.body)
               \* Clear condition and end if
               g3 == call(call(g2, "move_to", <<c.addr>>), "clear_cell", <<>>)
           IN  Emit(g3, <<"]">>)
      [] stmt.type = "While" ->
           LET c == call(g, "evaluate_condition", <<stmt.condition>>)
               g1 == At(c.g, c.addr, <<"[">>)
               g2 == visit_body(g1, stmt.body)
               \* Re-evaluate condition
               n == call(g2, "evaluate_condition", <<stmt.condition>>)
               g3 == call(n.g, "copy_value", <<n.addr, c.addr>>)
           IN  At(g3, c.addr, <<"]">>)

\* A call in which visit_stmt evaluates the value of an Assign before it looks
\* the name up: the value's code is emitted for an unbound name too.
call_eager(g, method, args) ==
    IF g.memory_ptr < 0
    THEN g
    ELSE CASE method = "move_to" -> move_to(g, args[1])
           [] method = "clear_cell" -> clear_cell(g)
           [] method = "set_value" -> set_value(g, args[1], args[2])
           [] method = "copy_value" -> copy_value(g, args[1], args[2])
           [] method = "add_values" -> add_values(g, args[1], args[2], args[3])
           [] method = "sub_values" -> sub_values(g, args[1], args[2], args[3])
           [] method = "compare_equal" -> compare_equal(g, args[1], args[2], args[3])
           [] method = "evaluate_expression" -> evaluate_expression(g, args[1])
           [] method = "evaluate_condition" -> evaluate_condition(g, args[1])
           [] method = "visit_stmt" ->
                IF args[1].type = "Assign" /\ args[1].name \notin DOMAIN g.variables
                THEN evaluate_expression(g, args[1].value).g
                ELSE visit_stmt(g, args[1])

call(g, method, args) ==
    IF g.memory_ptr < 0   \* usize: never; the method runs on the generator as it is now
    THEN g
    ELSE CASE method = "move_to" -> move_to(g, args[1])
           [] method = "clear_cell" -> clear_cell(g)
           [] method = "set_value" -> set_value(g, args[1], args[2])
           [] method = "copy_value" -> copy_value(g, args[1], args[2])
           [] method = "add_values" -> add_values(g, args[1], args[2], args[3])
           [] method = "sub_values" -> sub_values(g, args[1], args[2], args[3])
           [] method = "compare_equal" -> compare_equal(g, args[1], args[2], args[3])
           [] method = "evaluate_expression" -> evaluate_expression(g, args[1])
           [] method = "evaluate_condition" -> evaluate_condition(g, args[1])
           [] method = "visit_stmt" -> visit_stmt(g, args[1])

visit_program(g, program) == visit_body(g, program)

\* generate(&mut self, program): visit_program on self as it is, then
\* Ok(self.output.clone()); the generator it leaves and the string returned.
generate(g, program) ==
    LET g1 == visit_program(g, program)
    IN  [g |-> g1, output |-> g1.output]

-----------------------------------------------------------------------------
(* The statements offered to the generator.  Names, values, conditions and *)
(* bodies are drawn from small sets that exercise every arm of             *)
(* evaluate_expression, evaluate_condition and visit_stmt.                 *)

Names == {"x", "y"}

X == Variable("x")

Y == Variable("y")

LetValues ==
    {Number(0), Number(7), Number(12), X,
     Binary(X, "Add", Number(1)), Binary(X, "Sub", Y)}

AssignValues == {Number(-2), Y, Binary(X, "Sub", Number(1))}

PrintValues == {Number(65), X, Y, Binary(X, "Less", Y), Binary(X, "Mul", Number(2))}

Conditions ==
    {X, Binary(X, "Equal", Number(1)), Binary(X, "NotEqual", Y),
     Binary(X, "Greater", Number(0))}

IfBodies == {<<>>, <<let_stmt("y", FALSE, Number(88)), print(Y)>>}

WhileBodies ==
    {<<assign("x", Binary(X, "Sub", Number(1)))>>,
     <<if_stmt(X, <<print(X)>>)>>}

-----------------------------------------------------------------------------
(* The compilation as a state machine: generate() lowers the program's     *)
(* statements in order; each action lowers the next top-level statement.   *)

\* The generator struct, read from the state.
Gen ==
    [variables |-> variables, memory_ptr |-> memory_ptr, output |-> output,
     next_temp_addr |-> next_temp_addr, let_log |-> let_log, temp_clash |-> temp_clash,
     no_arm |-> no_arm, set_value_log |-> set_value_log]

\* The state after a call that left the generator as g.
Becomes(g) ==
    /\ variables' = g.variables
    /\ memory_ptr' = g.memory_ptr
    /\ output' = g.output
    /\ next_temp_addr' = g.next_temp_addr
    /\ let_log' = g.let_log
    /\ temp_clash' = g.temp_clash
    /\ no_arm' = g.no_arm
    /\ set_value_log' = g.set_value_log

\* No source is being compiled: the lexer and the parser have not run.
FrontIdle ==
    /\ lexer = [input |-> <<>>, position |-> 0, current_char |-> "None"]
    /\ tokens = <<>>
    /\ lexed = [kind |-> "none"]
    /\ parsed = [kind |-> "none"]

MachineIdle ==
    /\ code = <<>>
    /\ ip = 1
    /\ tape = <<>>
    /\ head = 0
    /\ stdout = <<>>
    /\ status = "idle"
    /\ job = [kind |-> "none"]

Init ==
    /\ variables = new.variables
    /\ memory_ptr = new.memory_ptr
    /\ output = new.output
    /\ next_temp_addr = new.next_temp_addr
    /\ let_log = new.let_log
    /\ temp_clash = new.temp_clash
    /\ no_arm = new.no_arm
    /\ set_value_log = new.set_value_log
    /\ stmts = 0
    /\ returned = <<>>
    /\ MachineIdle
    /\ FrontIdle

\* generate() is lowering a program and may take another statement.
Lowering == status = "idle" /\ stmts < MaxStmts

VisitLet ==
    \E name \in Names, value \in LetValues :
        /\ Lowering
        /\ Becomes(call(Gen, "visit_stmt", <<let_stmt(name, FALSE, value)>>))
        /\ stmts' = stmts + 1
        /\ UNCHANGED returned
        /\ UNCHANGED runVars
        /\ UNCHANGED frontVars

VisitAssign ==
    \E name \in Names, value \in AssignValues :
        /\ Lowering
        /\ Becomes(call(Gen, "visit_stmt", <<assign(name, value)>>))
        /\ stmts' = stmts + 1
        /\ UNCHANGED returned
        /\ UNCHANGED runVars
        /\ UNCHANGED frontVars

VisitPrint ==
    \E value \in PrintValues :
        /\ Lowering
        /\ Becomes(call(Gen, "visit_stmt", <<print(value)>>))
        /\ stmts' = stmts + 1
        /\ UNCHANGED returned
        /\ UNCHANGED runVars
        /\ UNCHANGED frontVars

VisitIf ==
    \E c \in Conditions, body \in IfBodies :
        /\ Lowering
        /\ Becomes(call(Gen, "visit_stmt", <<if_stmt(c, body)>>))
        /\ stmts' = stmts + 1
        /\ UNCHANGED returned
        /\ UNCHANGED runVars
        /\ UNCHANGED frontVars

VisitWhile ==
    \E c \in Conditions, body \in WhileBodies :
        /\ Lowering
        /\ Becomes(call(Gen, "visit_stmt", <<while_stmt(c, body)>>))
        /\ stmts' = stmts + 1
        /\ UNCHANGED returned
        /\ UNCHANGED runVars
        /\ UNCHANGED frontVars

Next == VisitLet \/ VisitAssign \/ VisitPrint \/ VisitIf \/ VisitWhile

Spec == Init /\ [][Next]_vars

-----------------------------------------------------------------------------
(* Calls of generate on one generator instance: generate is a `&mut self`  *)
(* method, so a caller holding the generator can call it again.  Each      *)
(* action is one call of generate, on a whole program.                     *)

\* Number of calls of generate on the instance.
MaxCalls == 2

\* The programs given to generate: the empty program, a print of a literal,
\* a Let and a print of the variable, a Let and an If on it.
GeneratePrograms ==
    {<<>>}
    \cup {<<print(Number(v))>> : v \in {0, 9, 10, 65}}
    \cup {<<let_stmt("x", FALSE, Number(v)), print(Variable("x"))>> : v \in {0, 10, 65}}
    \cup {<<let_stmt("x", FALSE, Number(v)),
            if_stmt(Binary(Variable("x"), "Equal", Number(1)),
                    <<let_stmt("y", FALSE, Number(88)), print(Variable("y"))>>)>> :
            v \in {0, 1}}

Generate ==
    \E program \in GeneratePrograms :
        /\ status = "idle"
        /\ Len(returned) < MaxCalls
        /\ Becomes(generate(Gen, program).g)
        /\ stmts' = stmts + Len(program)
        /\ returned' = Append(returned, [program |-> program,
                                         output |-> generate(Gen, program).output])
        /\ UNCHANGED runVars
        /\ UNCHANGED frontVars

GenerateNext == Generate

SpecGenerate == Init /\ [][GenerateNext]_vars

-----------------------------------------------------------------------------
(* The reference machine of spec section 6: 8-bit cells, a tape unbounded  *)
(* to the right only, all cells 0 and the head at 0 when a program starts. *)

\* Number of values of a cell (8-bit cells).
CellValues == 256

\* The content of cell i; a cell never written holds its initial 0.
Cell(t, i) == IF i \in DOMAIN t THEN t[i] ELSE 0

\* The tape t with cell i set to v.
Store(t, i, v) == [k \in DOMAIN t \cup {i} |-> IF k = i THEN v ELSE t[k]]

\* The position in lo..hi of the ']' that closes a loop open d deep at lo, or
\* the depth after hi when there is none.
RECURSIVE FindClose(_, _, _, _)
FindClose(s, lo, hi, d) ==
    IF lo = hi
    THEN IF s[lo] = "[" THEN [found |-> FALSE, d |-> d + 1]
         ELSE IF s[lo] = "]"
              THEN IF d = 1 THEN [found |-> TRUE, pos |-> lo]
                   ELSE [found |-> FALSE, d |-> d - 1]
              ELSE [found |-> FALSE, d |-> d]
    ELSE LET mid == (lo + hi) \div 2
             left == FindClose(s, lo, mid, d)
         IN  IF left.found THEN left ELSE FindClose(s, mid + 1, hi, left.d)

\* The position in lo..hi of the '[' that opens a loop closed d deep at hi,
\* scanning from hi down, or the depth before lo when there is none.
RECURSIVE FindOpen(_, _, _, _)
FindOpen(s, lo, hi, d) ==
    IF lo = hi
    THEN IF s[lo] = "]" THEN [found |-> FALSE, d |-> d + 1]
         ELSE IF s[lo] = "["
              THEN IF d = 1 THEN [found |-> TRUE, pos |-> lo]
                   ELSE [found |-> FALSE, d |-> d - 1]
              ELSE [found |-> FALSE, d |-> d]
    ELSE LET mid == (lo + hi) \div 2
             right == FindOpen(s, mid + 1, hi, d)
         IN  IF right.found THEN right ELSE FindOpen(s, lo, mid, right.d)

\* The machine is about to execute the instruction c.
Executing(c) == status = "running" /\ ip <= Len(code) /\ code[ip] = c

Inc ==
    /\ Executing("+")
    /\ tape' = Store(tape, head, (Cell(tape, head) + 1) % CellValues)
    /\ ip' = ip + 1
    /\ UNCHANGED <<code, head, stdout, status, job>>
    /\ UNCHANGED genVars
    /\ UNCHANGED frontVars

Dec ==
    /\ Executing("-")
    /\ tape' = Store(tape, head, (Cell(tape, head) + CellValues - 1) % CellValues)
    /\ ip' = ip + 1
    /\ UNCHANGED <<code, head, stdout, status, job>>
    /\ UNCHANGED genVars
    /\ UNCHANGED frontVars

Right ==
    /\ Executing(">")
    /\ head' = head + 1
    /\ ip' = ip + 1
    /\ UNCHANGED <<code, tape, stdout, status, job>>
    /\ UNCHANGED genVars
    /\ UNCHANGED frontVars

Left ==
    /\ Executing("<")
    /\ head > 0
    /\ head' = head - 1
    /\ ip' = ip + 1
    /\ UNCHANGED <<code, tape, stdout, status, job>>
    /\ UNCHANGED genVars
    /\ UNCHANGED frontVars

\* '<' at cell 0: the tape has no cell to the left, the run is aborted.
Underflow ==
    /\ Executing("<")
    /\ head = 0
    /\ status' = "underflow"
    /\ UNCHANGED <<code, ip, tape, head, stdout, job>>
    /\ UNCHANGED genVars
    /\ UNCHANGED frontVars

Open ==
    /\ Executing("[")
    /\ ip' = IF Cell(tape, head) = 0
             THEN FindClose(code, ip, Len(code), 0).pos + 1
             ELSE ip + 1
    /\ UNCHANGED <<code, tape, head, stdout, status, job>>
    /\ UNCHANGED genVars
    /\ UNCHANGED frontVars

Close ==
    /\ Executing("]")
    /\ ip' = IF Cell(tape, head) # 0
             THEN FindOpen(code, 1, ip, 0).pos + 1
             ELSE ip + 1
    /\ UNCHANGED <<code, tape, head, stdout, status, job>>
    /\ UNCHANGED genVars
    /\ UNCHANGED frontVars

Out ==
    /\ Executing(".")
    /\ stdout' = Append(stdout, Cell(tape, head))
    /\ ip' = ip + 1
    /\ UNCHANGED <<code, tape, head, status, job>>
    /\ UNCHANGED genVars
    /\ UNCHANGED frontVars

Halt ==
    /\ status = "running"
    /\ ip > Len(code)
    /\ status' = "halted"
    /\ UNCHANGED <<code, ip, tape, head, stdout, job>>
    /\ UNCHANGED genVars
    /\ UNCHANGED frontVars

RunNext == Inc \/ Dec \/ Right \/ Left \/ Underflow \/ Open \/ Close \/ Out \/ Halt

-----------------------------------------------------------------------------
(* Runs: a program is compiled by generate and its output executed from    *)
(* the machine's initial state; a primitive is applied to a generator      *)
(* whose model head is head0 and its fragment executed with the runtime    *)
(* head at head0 and the given prior cell contents.                        *)

Z == Variable("z")

\* Literals of the end-to-end programs.
Literals == {0, 9, 10, 65, 88, 255}

\* let x = v; print(x);
LetPrint(v) == <<let_stmt("x", FALSE, Number(v)), print(X)>>

\* let x = a; let y = b; let z = x op y; print(z);
LetArith(a, operator, b) ==
    <<let_stmt("x", FALSE, Number(a)), let_stmt("y", FALSE, Number(b)),
      let_stmt("z", FALSE, Binary(X, operator, Y)), print(Z)>>

\* let x = v; if x == 1 { let y = 88; print(y); }
LetIf(v) ==
    <<let_stmt("x", FALSE, Number(v)),
      if_stmt(Binary(X, "Equal", Number(1)),
              <<let_stmt("y", FALSE, Number(88)), print(Y)>>)>>

ArithCases == {<<10, "Add", 5>>, <<20, "Sub", 7>>, <<5, "Sub", 10>>, <<200, "Add", 100>>}

Programs ==
    {LetPrint(v) : v \in Literals}
    \cup {LetArith(c[1], c[2], c[3]) : c \in ArithCases}
    \cup {LetIf(v) : v \in {0, 1}}
    \cup {<<print(Number(v))>> : v \in Literals}
    \cup {<<print(Binary(Number(10), "Add", Number(5)))>>}

ProgramJobs == {[kind |-> "program", program |-> p, head0 |-> 0, tape0 |-> <<>>] : p \in Programs}

\* Values at the edges of set_value's three policies and of its decomposition.
EdgeValues == {0, 1, 9, 10, 15, 16, 17, 99, 100, 255}

\* Prior contents of the target cell.
PriorCells == {0, 1, 255}

SetValueJob(addr, value, head0, pa, pb) ==
    [kind |-> "set_value", addr |-> addr, value |-> value, head0 |-> head0,
     tape0 |-> Store(Store(<<>>, addr, pa), addr + 1, pb)]

\* Every value into a fresh first temp from head 0, as evaluate_expression does
\* for a program's first literal; the edge values at low addresses, reached
\* from the left and from the right, over prior contents of addr and addr+1.
SetValueJobs ==
    {SetValueJob(TempBase, v, 0, 0, 0) : v \in 0..(CellValues - 1)}
    \cup {SetValueJob(a, v, h, pa, pb) :
            a \in 0..MaxAddr, v \in EdgeValues, h \in {0, MaxAddr + 2},
            pa \in PriorCells, pb \in {0, 1}}

\* A generator whose model head is head0 and that has issued `issued` temps.
Issued(head0, issued) ==
    [new EXCEPT !.memory_ptr = head0, !.next_temp_addr = TempBase + issued]

\* copy_value(from, to), called `times` times in a row, with v in from and the
\* prior contents pd in to and pt in the temp of the (first) call.
CopyJob(from, to, times, v, pd, pt) ==
    [kind |-> "copy_value", from |-> from, to |-> to, times |-> times, v |-> v,
     temp |-> TempBase + 2, head0 |-> from,
     tape0 |-> Store(Store(Store(<<>>, TempBase + 2, pt), to, pd), from, v)]

\* The (from, to) of the calls the generator makes: a literal's temp into a
\* variable (Let, Assign), a variable into a temp (add_values, compare_equal,
\* Less), a variable into a variable, a temp into the next temp, and a cell
\* into itself (Assign of `x = x`, While on a bare variable).
FarPairs == {<<TempBase, 0>>, <<0, TempBase>>, <<0, MaxAddr>>, <<0, 0>>}

NearPairs == {<<TempBase, TempBase + 1>>, <<TempBase + 1, TempBase>>, <<TempBase, TempBase>>}

CopyJobs ==
    {CopyJob(p[1], p[2], n, v, pd, 1) :
        p \in FarPairs, n \in {1, 2}, v \in {0, 2}, pd \in {0, 5}}
    \cup {CopyJob(p[1], p[2], n, v, 5, 1) :
            p \in NearPairs, n \in {1, 2}, v \in {0, 1, 255}}

\* method(result, left, right) for add_values, sub_values or compare_equal,
\* with l in left, r in right, the prior content pr in result and junk in the
\* temps the call issues.
ArithJob(method, result, left, right, head0, issued, l, r, pr, junk) ==
    [kind |-> method, result |-> result, left |-> left, right |-> right,
     head0 |-> head0, issued |-> issued, l |-> l, r |-> r,
     tape0 |-> Store(Store(Store(
                  [a \in (TempBase + issued)..(TempBase + issued + 3) |-> junk],
                  result, pr), right, r), left, l)]

ArithMethods == {"add_values", "sub_values", "compare_equal"}

\* Contents of the operands: equal and unequal, sums above 255, differences
\* below 0.
ArithPairs ==
    {<<0, 0>>, <<0, 1>>, <<1, 0>>, <<3, 3>>, <<5, 10>>, <<255, 1>>, <<0, 255>>,
     <<200, 100>>, <<255, 255>>}

\* The operands are the temps of two literals and the result the next temp,
\* as evaluate_expression calls the methods for `a op b`; the operands are
\* variables; both operands are one variable (`x op x`).
ArithJobs ==
    {ArithJob(m, TempBase + 2, TempBase, TempBase + 1, TempBase + 1, 3, p[1], p[2], 7, 1) :
        m \in ArithMethods, p \in ArithPairs}
    \cup {ArithJob(m, TempBase, 0, MaxAddr, 0, 1, 2, v, pr, 0) :
            m \in ArithMethods, v \in {1, 2}, pr \in {0, 7}}
    \cup {ArithJob(m, TempBase, a, a, 0, 1, 2, 2, 7, 0) :
            m \in ArithMethods, a \in 0..MaxAddr}

\* A generator on which x is bound to addr, whose model head is head0 and that
\* has issued `issued` temps.
Bound(addr, head0, issued) ==
    [Issued(head0, issued) EXCEPT !.variables = MapInsert(<<>>, "x", addr)]

\* The index in the code of visit_stmt(stmt), stmt an If or a While, of the
\* '[' pushed after evaluate_condition and move_to(condition_addr).
OpenOf(g, stmt) ==
    LET c == call(g, "evaluate_condition", <<stmt.condition>>)
    IN  Len(call(c.g, "move_to", <<c.addr>>).output) + 1

\* visit_stmt(stmt) on the generator g, executed with the runtime head at the
\* model head and xv in the cell of x (when x is bound).
StmtJob(g, stmt, xv) ==
    [kind |-> "stmt", stmt |-> stmt, g |-> g, xv |-> xv, open |-> OpenOf(g, stmt),
     head0 |-> g.memory_ptr,
     tape0 |-> IF "x" \in DOMAIN g.variables
               THEN Store(<<>>, g.variables["x"], xv) ELSE <<>>]

\* print(x); x = x - 1;
Countdown == <<print(X), assign("x", Binary(X, "Sub", Number(1)))>>

\* The forms of a While condition: a bare variable, x > k, x != k, x == k.
WhileConditions ==
    {X, Binary(X, "Greater", Number(0)), Binary(X, "NotEqual", Number(0)),
     Binary(X, "Equal", Number(2))}

\* x is bound to the cell the head was at after a Print (the first temp).
WhileJobs ==
    {StmtJob(Bound(TempBase, TempBase, 1), while_stmt(c, Countdown), xv) :
        c \in WhileConditions, xv \in {0, 1, 2, 3}}

\* Bodies of an If: without and with a Let.
IfJobBodies == {<<print(Number(7))>>, <<let_stmt("y", FALSE, Number(88)), print(Y)>>}

\* If on a literal and on a comparison of literals, as a program's first
\* statement; If on a variable, on x == k and on x > k.
IfJobs ==
    {StmtJob(new, if_stmt(c, body), 0) :
        c \in {Number(0), Number(1), Number(2), Binary(Number(1), "Equal", Number(1)),
               Binary(Number(1), "NotEqual", Number(1))},
        body \in IfJobBodies}
    \cup {StmtJob(Bound(a, a, 0), if_stmt(c, body), xv) :
            a \in 0..MaxAddr,
            c \in {X, Binary(X, "Equal", Number(2)), Binary(X, "Greater", Number(0))},
            body \in IfJobBodies, xv \in {0, 2, 3}}

\* while x != 0 { x = x - n; } visited on the generator g with xv in the cell
\* of x: the literal n of the body is evaluated on every pass.  addr is the
\* address evaluate_expression returns for the literal and last the index in
\* the code of the last instruction of the literal's fragment.
LiteralJob(g, n, xv) ==
    LET stmt == while_stmt(Binary(X, "NotEqual", Number(0)),
                           <<assign("x", Binary(X, "Sub", Number(n)))>>)
        c == call(g, "evaluate_condition", <<stmt.condition>>)
        lit == call(At(c.g, c.addr, <<"[">>), "evaluate_expression", <<Number(n)>>)
    IN  [kind |-> "literal", stmt |-> stmt, g |-> g, xv |-> xv, n |-> n,
         addr |-> lit.addr, last |-> Len(lit.g.output),
         head0 |-> g.memory_ptr, tape0 |-> Store(<<>>, g.variables["x"], xv)]

\* Literals below and at the threshold of set_value's decomposition, with x
\* such that the body runs once and more than once.
LiteralJobs ==
    {LiteralJob(Bound(TempBase, TempBase, 1), n, n + k) : n \in {1, 10}, k \in {0, 1}}

\* The NotEqual arm on the operands of ArithJobs: the temps of two literals,
\* and one variable as both operands.  The flip temp is the last temp the arm
\* issues, a cell no code has written.
NotEqualJobs ==
    {ArithJob("not_equal", TempBase + 2, TempBase, TempBase + 1, TempBase + 1, 3,
              p[1], p[2], 7, 1) : p \in ArithPairs}
    \cup {ArithJob("not_equal", TempBase, a, a, 0, 1, 2, 2, 7, 0) : a \in 0..MaxAddr}

\* while x != 0 { print(x != k); x = x - 1; } visited on the generator g with
\* xv in the cell of x: the fragment of `x != k` is executed on every pass.
\* flip is the flip temp of that fragment.
FlipJob(g, k, xv) ==
    LET e == Binary(X, "NotEqual", Number(k))
        stmt == while_stmt(Binary(X, "NotEqual", Number(0)),
                           <<print(e), assign("x", Binary(X, "Sub", Number(1)))>>)
        c == call(g, "evaluate_condition", <<stmt.condition>>)
        v == call(At(c.g, c.addr, <<"[">>), "evaluate_expression", <<e>>)
    IN  [kind |-> "flip", stmt |-> stmt, g |-> g, xv |-> xv, k |-> k,
         flip |-> v.g.next_temp_addr - 1,
         head0 |-> g.memory_ptr, tape0 |-> Store(<<>>, g.variables["x"], xv)]

FlipJobs == {FlipJob(Bound(TempBase, TempBase, 1), 2, xv) : xv \in {1, 3}}

Jobs ==
    ProgramJobs \cup SetValueJobs \cup CopyJobs \cup ArithJobs \cup WhileJobs \cup IfJobs
    \cup LiteralJobs \cup NotEqualJobs \cup FlipJobs

\* The generator after building the code of job j.
Built(j) ==
    CASE j.kind = "program" -> visit_body(new, j.program)
      [] j.kind = "set_value" ->
           call([new EXCEPT !.memory_ptr = j.head0], "set_value", <<j.addr, j.value>>)
      [] j.kind = "copy_value" ->
           LET once == call(Issued(j.head0, 2), "copy_value", <<j.from, j.to>>)
           IN  IF j.times = 1 THEN once ELSE call(once, "copy_value", <<j.from, j.to>>)
      [] j.kind \in {"stmt", "literal", "flip"} -> call(j.g, "visit_stmt", <<j.stmt>>)
      [] j.kind = "not_equal" ->
           not_equal(Issued(j.head0, j.issued), j.result, j.left, j.right)
      [] j.kind \in ArithMethods ->
           call(Issued(j.head0, j.issued), j.kind, <<j.result, j.left, j.right>>)

RunInit ==
    \E j \in Jobs :
        /\ variables = Built(j).variables
        /\ memory_ptr = Built(j).memory_ptr
        /\ output = Built(j).output
        /\ next_temp_addr = Built(j).next_temp_addr
        /\ let_log = Built(j).let_log
        /\ temp_clash = Built(j).temp_clash
        /\ no_arm = Built(j).no_arm
        /\ set_value_log = Built(j).set_value_log
        /\ stmts = 0
        /\ returned = <<>>
        /\ code = Built(j).output
        /\ ip = 1
        /\ tape = j.tape0
        /\ head = j.head0
        /\ stdout = <<>>
        /\ status = "running"
        /\ job = j
        /\ FrontIdle

SpecRun == RunInit /\ [][RunNext]_vars

-----------------------------------------------------------------------------
(* The lexer (src/src/lexer.rs).  A character is a one-character string;   *)
(* a character outside ASCII is written by its code point ("U+00E9" is the *)
(* letter e with acute accent, "U+0663" the Arabic-Indic digit three).  A  *)
(* source text and an identifier are sequences of characters.              *)

\* The ASCII letters that occur in the sources.
AsciiLetters == {"a", "e", "f", "h", "i", "l", "m", "n", "p", "r", "t", "u", "w", "x", "y"}

\* "0" .. "9", in order.
DigitChars == <<"0", "1", "2", "3", "4", "5", "6", "7", "8", "9">>

\* char::is_ascii_digit
is_ascii_digit(c) == \E i \in 1..Len(DigitChars) : DigitChars[i] = c

\* char::is_alphabetic: the Unicode property Alphabetic, not only ASCII.
is_alphabetic(c) == c \in AsciiLetters \cup {"U+00E9"}

\* char::is_alphanumeric: Alphabetic or a Unicode number.
is_alphanumeric(c) == is_alphabetic(c) \/ is_ascii_digit(c) \/ c = "U+0663"

\* char::is_whitespace
is_whitespace(c) == c \in {" ", "\n", "\t"}

\* i32::MAX, the largest value parse::<i32> returns.
I32Max == 2147483647

Token(type) == [type |-> type]

Identifier(name) == [type |-> "Identifier", name |-> name]

NumberToken(n) == [type |-> "Number", n |-> n]

Eof == Token("Eof")

\* Lexer::new(input)
Lexer_new(input) ==
    [input |-> IF input = <<>> THEN <<>> ELSE Tail(input),
     position |-> 0,
     current_char |-> IF input = <<>> THEN "None" ELSE Head(input)]

\* Lexer::advance
Lexer_advance(l) ==
    [input |-> IF l.input = <<>> THEN <<>> ELSE Tail(l.input),
     position |-> l.position + 1,
     current_char |-> IF l.input = <<>> THEN "None" ELSE Head(l.input)]

\* A lexer method that returns a token: the lexer it leaves and the token.
Lexed(l, token) == [ok |-> TRUE, l |-> l, token |-> token]

\* TranspilerError::with_position(message, position)
with_position(message, position) ==
    [ok |-> FALSE, message |-> message, position |-> position]

RECURSIVE skip_whitespace(_)
skip_whitespace(l) ==
    IF l.current_char # "None" /\ is_whitespace(l.current_char)
    THEN skip_whitespace(Lexer_advance(l))
    ELSE l

\* handle_equals that never looks at the next character.
handle_equals_single(l) == Lexed(Lexer_advance(l), Token("Assign"))

handle_equals(l) ==
    LET l1 == Lexer_advance(l)
    IN  IF l1.current_char = "="
        THEN Lexed(Lexer_advance(l1), Token("Equal"))
        ELSE Lexed(l1, Token("Assign"))

handle_exclamation(l) ==
    LET l1 == Lexer_advance(l)
    IN  IF l1.current_char = "="
        THEN Lexed(Lexer_advance(l1), Token("NotEqual"))
        ELSE Lexed(l1, Token("Exclamation"))

\* The value of the decimal digit c.
DigitValue(c) == (CHOOSE i \in 1..Len(DigitChars) : DigitChars[i] = c) - 1

\* number.parse::<i32>() read digit by digit from acc: the value, or -1 when
\* it does not fit in an i32.
RECURSIVE parse_i32(_, _)
parse_i32(number, acc) ==
    IF number = <<>>
    THEN acc
    ELSE LET d == DigitValue(Head(number))
         IN  IF acc > (I32Max - d) \div 10
             THEN -1
             ELSE parse_i32(Tail(number), acc * 10 + d)

\* The while loop of read_number: the digits read and the lexer after them.
RECURSIVE read_digits(_, _)
read_digits(l, number) ==
    IF l.current_char # "None" /\ is_ascii_digit(l.current_char)
    THEN read_digits(Lexer_advance(l), Append(number, l.current_char))
    ELSE [l |-> l, text |-> number]

read_number(l) ==
    LET r == read_digits(l, <<>>)
        n == parse_i32(r.text, 0)
    IN  IF n >= 0
        THEN Lexed(r.l, NumberToken(n))
        ELSE with_position("Invalid number", r.l.position)

\* The while loop of read_identifier.
RECURSIVE read_letters(_, _)
read_letters(l, identifier) ==
    IF l.current_char # "None" /\ (is_alphanumeric(l.current_char) \/ l.current_char = "_")
    THEN read_letters(Lexer_advance(l), Append(identifier, l.current_char))
    ELSE [l |-> l, text |-> identifier]

read_identifier(l) ==
    LET r == read_letters(l, <<>>)
    IN  Lexed(r.l,
              CASE r.text = <<"l", "e", "t">> -> Token("Let")
                [] r.text = <<"m", "u", "t">> -> Token("Mut")
                [] r.text = <<"p", "r", "i", "n", "t">> -> Token("Print")
                [] r.text = <<"i", "f">> -> Token("If")
                [] r.text = <<"w", "h", "i", "l", "e">> -> Token("While")
                [] OTHER -> Identifier(r.text))

\* The token of a character that is a token by itself.
SingleCharTokens ==
    [c \in {"+", "-", "<", ">", ";", "{", "}", "(", ")"} |->
        CASE c = "+" -> "Plus" [] c = "-" -> "Minus" [] c = "<" -> "Less"
          [] c = ">" -> "Greater" [] c = ";" -> "Semicolon" [] c = "{" -> "LeftBrace"
          [] c = "}" -> "RightBrace" [] c = "(" -> "LeftParen" [] c = ")" -> "RightParen"]

next_token(l0) ==
    LET l == skip_whitespace(l0)
        ch == l.current_char
    IN  IF ch = "None"
        THEN Lexed(l, Eof)
        ELSE CASE ch = "=" -> handle_equals(l)
               [] ch = "!" -> handle_exclamation(l)
               [] ch \in DOMAIN SingleCharTokens ->
                    Lexed(Lexer_advance(l), Token(SingleCharTokens[ch]))
               [] is_ascii_digit(ch) -> read_number(l)
               [] is_alphabetic(ch) \/ ch = "_" -> read_identifier(l)
               [] OTHER -> with_position("Unexpected character", l.position)

-----------------------------------------------------------------------------
(* The parser (src/src/parser.rs).  A parser p is its token vector and its *)
(* cursor `current` (zero-based).  A method that returns a Result returns  *)
(* Ok with the parser it leaves and its value, or the error.               *)

Parser_new(toks) == [tokens |-> toks, current |-> 0]

\* Ok(value), with the parser after the call.
POk(p, value) == [ok |-> TRUE, p |-> p, value |-> value]

is_at_end(p) == p.current >= Len(p.tokens)

\* self.tokens.get(self.current).unwrap_or(&Token::Eof)
peek(p) == IF p.current < Len(p.tokens) THEN p.tokens[p.current + 1] ELSE Eof

\* Parser::advance; the token it returns is peek(p) before the call.
Parser_advance(p) == IF ~is_at_end(p) THEN [p EXCEPT !.current = @ + 1] ELSE p

consume(p, expected, message) ==
    IF peek(p).type = expected
    THEN POk(Parser_advance(p), "()")
    ELSE with_position(message, p.current)

consume_if_present(p, token) ==
    IF peek(p).type = token THEN Parser_advance(p) ELSE p

consume_identifier(p, message) ==
    IF peek(p).type = "Identifier"
    THEN POk(Parser_advance(p), peek(p).name)
    ELSE with_position(message, p.current)

\* A call self.method() of a parsing method; rule(p, method) is the definition
\* of that name applied to p (see its definition after statement).
RECURSIVE rule(_, _)

\* The operator tokens of each precedence level and their BinaryOp.
EqualityOps == [t \in {"Equal", "NotEqual"} |-> t]

ComparisonOps == [t \in {"Less", "Greater"} |-> t]

TermOps == [t \in {"Plus", "Minus"} |-> IF t = "Plus" THEN "Add" ELSE "Sub"]

FactorOps == [t \in {"Multiply", "Divide"} |-> IF t = "Multiply" THEN "Mul" ELSE "Div"]

\* The loop `while matches!(self.peek(), ...)` of equality, comparison, term
\* and factor: left is the Ok result so far, operand the method that parses
\* the right operand, ops the operator tokens matched.
RECURSIVE while_matches(_, _, _)
while_matches(left, operand, ops) ==
    IF peek(left.p).type \in DOMAIN ops
    THEN LET right == rule(Parser_advance(left.p), operand)
         IN  IF ~right.ok
             THEN right
             ELSE while_matches(
                      POk(right.p, Binary(left.value, ops[peek(left.p).type], right.value)),
                      operand, ops)
    ELSE left

primary(p) ==
    CASE peek(p).type = "Number" -> POk(Parser_advance(p), Number(peek(p).n))
      [] peek(p).type = "Identifier" -> POk(Parser_advance(p), Variable(peek(p).name))
      [] peek(p).type = "LeftParen" ->
           LET expr == rule(Parser_advance(p), "expression")
           IN  IF ~expr.ok
               THEN expr
               ELSE LET closed == consume(expr.p, "RightParen",
                                          "Expected ')' after expression")
                    IN  IF ~closed.ok THEN closed ELSE POk(closed.p, expr.value)
      [] OTHER -> with_position("Unexpected token in expression", p.current)

factor(p) ==
    LET expr == rule(p, "primary")
    IN  IF ~expr.ok THEN expr ELSE while_matches(expr, "primary", FactorOps)

term(p) ==
    LET expr == rule(p, "factor")
    IN  IF ~expr.ok THEN expr ELSE while_matches(expr, "factor", TermOps)

comparison(p) ==
    LET expr == rule(p, "term")
    IN  IF ~expr.ok THEN expr ELSE while_matches(expr, "term", ComparisonOps)

equality(p) ==
    LET expr == rule(p, "comparison")
    IN  IF ~expr.ok THEN expr ELSE while_matches(expr, "comparison", EqualityOps)

expression(p) == rule(p, "equality")

\* The loop of block: statements until a '}' or the end of the vector.
RECURSIVE block_loop(_, _)
block_loop(p, statements) ==
    IF peek(p).type # "RightBrace" /\ ~is_at_end(p)
    THEN LET stmt == rule(p, "statement")
         IN  IF ~stmt.ok THEN stmt ELSE block_loop(stmt.p, Append(statements, stmt.value))
    ELSE POk(p, statements)

block(p) ==
    LET opened == consume(p, "LeftBrace", "Expected '{'")
    IN  IF ~opened.ok
        THEN opened
        ELSE LET body == block_loop(opened.p, <<>>)
             IN  IF ~body.ok
                 THEN body
                 ELSE LET closed == consume(body.p, "RightBrace", "Expected '}'")
                      IN  IF ~closed.ok THEN closed ELSE POk(closed.p, body.value)

\* `let value = self.expression()?; self.consume_if_present(Token::Semicolon);`
\* then Ok(make(value)) with the parser after the optional ';'.
ValueThen(p, name, mutable, type) ==
    LET value == rule(p, "expression")
    IN  IF ~value.ok
        THEN value
        ELSE POk(consume_if_present(value.p, "Semicolon"),
                 IF type = "Let"
                 THEN let_stmt(name, mutable, value.value)
                 ELSE assign(name, value.value))

let_statement(p) ==
    LET kw == consume(p, "Let", "Expected 'let'")
    IN  IF ~kw.ok
        THEN kw
        ELSE LET mutable == peek(kw.p).type = "Mut"
                 name == consume_identifier(IF mutable THEN Parser_advance(kw.p) ELSE kw.p,
                                            "Expected variable name")
             IN  IF ~name.ok
                 THEN name
                 ELSE LET eq == consume(name.p, "Assign",
                                        "Expected '=' after variable name")
                      IN  IF ~eq.ok THEN eq ELSE ValueThen(eq.p, name.value, mutable, "Let")

\* assignment_statement that takes a lone identifier as an assignment of itself.
assignment_statement_bare(p) ==
    LET name == consume_identifier(p, "Expected variable name")
    IN  IF ~name.ok
        THEN name
        ELSE IF peek(name.p).type = "Assign"
             THEN ValueThen(Parser_advance(name.p), name.value, FALSE, "Assign")
             ELSE POk(consume_if_present(name.p, "Semicolon"),
                      assign(name.value, Variable(name.value)))

assignment_statement(p) ==
    LET name == consume_identifier(p, "Expected variable name")
    IN  IF ~name.ok
        THEN name
        ELSE LET eq == consume(name.p, "Assign", "Expected '=' in assignment")
             IN  IF ~eq.ok THEN eq ELSE ValueThen(eq.p, name.value, FALSE, "Assign")

print_statement(p) ==
    LET kw == consume(p, "Print", "Expected 'print'")
    IN  IF ~kw.ok
        THEN kw
        ELSE LET opened == consume(kw.p, "LeftParen", "Expected '(' after 'print'")
             IN  IF ~opened.ok
                 THEN opened
                 ELSE LET expr == rule(opened.p, "expression")
                      IN  IF ~expr.ok
                          THEN expr
                          ELSE LET closed == consume(expr.p, "RightParen",
                                                     "Expected ')' after expression")
                               IN  IF ~closed.ok
                                   THEN closed
                                   ELSE POk(consume_if_present(closed.p, "Semicolon"),
                                            print(expr.value))

\* The rest of if_statement and while_statement after the keyword.
ConditionBlock(p, type) ==
    LET condition == rule(p, "expression")
    IN  IF ~condition.ok
        THEN condition
        ELSE LET body == rule(condition.p, "block")
             IN  IF ~body.ok
                 THEN body
                 ELSE POk(body.p,
                          IF type = "If"
                          THEN if_stmt(condition.value, body.value)
                          ELSE while_stmt(condition.value, body.value))

if_statement(p) ==
    LET kw == consume(p, "If", "Expected 'if'")
    IN  IF ~kw.ok THEN kw ELSE ConditionBlock(kw.p, "If")

while_statement(p) ==
    LET kw == consume(p, "While", "Expected 'while'")
    IN  IF ~kw.ok THEN kw ELSE ConditionBlock(kw.p, "While")

statement(p) ==
    CASE peek(p).type = "Let" -> rule(p, "let_statement")
      [] peek(p).type = "Print" -> rule(p, "print_statement")
      [] peek(p).type = "If" -> rule(p, "if_statement")
      [] peek(p).type = "While" -> rule(p, "while_statement")
      [] peek(p).type = "Identifier" -> rule(p, "assignment_statement")
      [] OTHER -> with_position("Unexpected token", p.current)

rule(p, method) ==
    IF p.current < 0   \* usize: never; the method runs on the parser as it is now
    THEN POk(p, "()")
    ELSE CASE method = "statement" -> statement(p)
           [] method = "let_statement" -> let_statement(p)
           [] method = "assignment_statement" -> assignment_statement(p)
           [] method = "print_statement" -> print_statement(p)
           [] method = "if_statement" -> if_statement(p)
           [] method = "while_statement" -> while_statement(p)
           [] method = "block" -> block(p)
           [] method = "expression" -> expression(p)
           [] method = "equality" -> equality(p)
           [] method = "comparison" -> comparison(p)
           [] method = "term" -> term(p)
           [] method = "factor" -> factor(p)
           [] method = "primary" -> primary(p)

\* The loop of parse: statements until Eof or the end of the vector.
RECURSIVE parse_loop(_, _)
parse_loop(p, statements) ==
    IF ~is_at_end(p) /\ peek(p).type # "Eof"
    THEN LET stmt == rule(p, "statement")
         IN  IF ~stmt.ok THEN stmt ELSE parse_loop(stmt.p, Append(statements, stmt.value))
    ELSE POk(p, statements)

\* Parser::parse on the parser p: Ok(program) or the error.
parse(p) ==
    LET r == parse_loop(p, <<>>)
    IN  IF r.ok
        THEN [kind |-> "Ok", program |-> r.value]
        ELSE [kind |-> "Err", message |-> r.message, position |-> r.position]

-----------------------------------------------------------------------------
(* The front end as a state machine: main.rs constructs a Lexer on the     *)
(* source and calls tokenize, whose loop calls next_token until Eof or an  *)
(* error; it then constructs a Parser on the tokens and calls parse.  A    *)
(* Parser can also be constructed on a token vector given directly.        *)

\* Length of the sources enumerated exhaustively.
MaxLen == 3

\* Length (before Eof) of the token vectors enumerated exhaustively.
MaxTokens == 3

\* The characters of the sources enumerated exhaustively.
LexChars == {"=", "!", "<", "+", ";", " ", "1", "x", "_", "*", "U+00E9", "U+0663"}

\* "== != < >" (test_tokenize_operators)
OperatorsSource == <<"=", "=", " ", "!", "=", " ", "<", " ", ">">>

\* "let x = 42;" (test_tokenize_simple)
SimpleSource == <<"l", "e", "t", " ", "x", " ", "=", " ", "4", "2", ";">>

\* "let x = 1 + 2 * 3;" (test_parse_expression)
PrecedenceSource ==
    <<"l", "e", "t", " ", "x", " ", "=", " ", "1", " ", "+", " ", "2", " ", "*", " ",
      "3", ";">>

\* "if x == 1 { let y = 88; print(y); }"
IfSource ==
    <<"i", "f", " ", "x", " ", "=", "=", " ", "1", " ", "{", " ", "l", "e", "t", " ",
      "y", " ", "=", " ", "8", "8", ";", " ", "p", "r", "i", "n", "t", "(", "y", ")",
      ";", " ", "}">>

\* "let mut i = 3; while i { i = i - 1; }"
WhileSource ==
    <<"l", "e", "t", " ", "m", "u", "t", " ", "i", " ", "=", " ", "3", ";", " ", "w",
      "h", "i", "l", "e", " ", "i", " ", "{", " ", "i", " ", "=", " ", "i", " ", "-",
      " ", "1", ";", " ", "}">>

Sources ==
    UNION {[1..k -> LexChars] : k \in 0..MaxLen}
    \cup {OperatorsSource, SimpleSource, PrecedenceSource, IfSource, WhileSource,
          <<"2", "1", "4", "7", "4", "8", "3", "6", "4", "7">>,
          <<"2", "1", "4", "7", "4", "8", "3", "6", "4", "8">>,
          <<"x", "U+00E9", " ", "=", " ", "1">>, <<"x", "=", "=", "=", "!", "=", "=", "1">>}

\* One token of each kind (one identifier, one number).
TokenOf(type) ==
    IF type = "Identifier" THEN Identifier(<<"x">>)
    ELSE IF type = "Number" THEN NumberToken(1) ELSE Token(type)

\* The kinds of Token other than Eof.
TokenTypes ==
    {"Identifier", "Number", "Let", "Mut", "Print", "If", "While", "Assign", "Plus",
     "Minus", "Multiply", "Divide", "Equal", "NotEqual", "Less", "Greater", "Semicolon",
     "LeftBrace", "RightBrace", "LeftParen", "RightParen", "Exclamation"}

\* The kinds of the token vectors enumerated exhaustively.
ShortTypes ==
    {"Identifier", "Number", "Let", "Print", "If", "Assign", "Plus", "Multiply", "Equal",
     "Semicolon", "LeftBrace", "RightBrace", "LeftParen", "RightParen", "Exclamation"}

\* let mut x = 1 + 2 * 3 ;
SeedLet ==
    <<Token("Let"), Token("Mut"), Identifier(<<"x">>), Token("Assign"), NumberToken(1),
      Token("Plus"), NumberToken(2), Token("Multiply"), NumberToken(3),
      Token("Semicolon")>>

\* print ( x == 1 ) ;
SeedPrint ==
    <<Token("Print"), Token("LeftParen"), Identifier(<<"x">>), Token("Equal"),
      NumberToken(1), Token("RightParen"), Token("Semicolon")>>

\* if x < 1 { x = ( 1 ) }
SeedIf ==
    <<Token("If"), Identifier(<<"x">>), Token("Less"), NumberToken(1),
      Token("LeftBrace"), Identifier(<<"x">>), Token("Assign"), Token("LeftParen"),
      NumberToken(1), Token("RightParen"), Token("RightBrace")>>

\* while x { print ( x ) } let x = 1 - 2 / 3 != 1 > x
SeedWhile ==
    <<Token("While"), Identifier(<<"x">>), Token("LeftBrace"), Token("Print"),
      Token("LeftParen"), Identifier(<<"x">>), Token("RightParen"),
      Token("RightBrace"), Token("Let"), Identifier(<<"x">>), Token("Assign"),
      NumberToken(1), Token("Minus"), NumberToken(2), Token("Divide"), NumberToken(3),
      Token("NotEqual"), NumberToken(1), Token("Greater"), Identifier(<<"x">>)>>

\* let x = 1 + 2 * 3 ;
PrecedenceTokens ==
    <<Token("Let"), Identifier(<<"x">>), Token("Assign"), NumberToken(1),
      Token("Plus"), NumberToken(2), Token("Multiply"), NumberToken(3),
      Token("Semicolon")>>

Seeds == {SeedLet, SeedPrint, SeedIf, SeedWhile, PrecedenceTokens}

\* seed, its prefixes, and seed with one token replaced by a token of any kind.
Variants(seed) ==
    {SubSeq(seed, 1, k) : k \in 0..Len(seed)}
    \cup {[seed EXCEPT ![i] = TokenOf(type)] : i \in 1..Len(seed), type \in TokenTypes}

\* The token vectors parsed: the lexer's vectors end with Eof and hold no
\* other Eof.
TokenVectors ==
    {Append(v, Eof) :
        v \in UNION {[1..k -> {TokenOf(type) : type \in ShortTypes}] : k \in 0..MaxTokens}
              \cup UNION {Variants(seed) : seed \in Seeds}}

\* The generator and the machine are not in use.
BackIdle ==
    /\ variables = new.variables
    /\ memory_ptr = new.memory_ptr
    /\ output = new.output
    /\ next_temp_addr = new.next_temp_addr
    /\ let_log = new.let_log
    /\ temp_clash = new.temp_clash
    /\ no_arm = new.no_arm
    /\ set_value_log = new.set_value_log
    /\ stmts = 0
    /\ returned = <<>>
    /\ code = <<>>
    /\ ip = 1
    /\ tape = <<>>
    /\ head = 0
    /\ stdout = <<>>
    /\ status = "idle"

FrontInit ==
    /\ BackIdle
    /\ parsed = [kind |-> "none"]
    /\ \/ \E source \in Sources :
             /\ job = [kind |-> "source", source |-> source]
             /\ lexer = Lexer_new(source)
             /\ tokens = <<>>
             /\ lexed = [kind |-> "running"]
       \/ \E toks \in TokenVectors :
             /\ job = [kind |-> "tokens", tokens |-> toks]
             /\ lexer = Lexer_new(<<>>)
             /\ tokens = toks
             /\ lexed = [kind |-> "given"]

\* tokenize is in its loop.
Tokenizing == lexed.kind = "running"

\* next_token returned a token other than Eof: it is pushed.
LexToken ==
    /\ Tokenizing
    /\ next_token(lexer).ok
    /\ next_token(lexer).token # Eof
    /\ lexer' = next_token(lexer).l
    /\ tokens' = Append(tokens, next_token(lexer).token)
    /\ UNCHANGED <<lexed, parsed>>
    /\ UNCHANGED genVars
    /\ UNCHANGED runVars

\* next_token returned Eof: the loop ends, Eof is pushed, tokenize returns Ok.
LexEof ==
    /\ Tokenizing
    /\ next_token(lexer).ok
    /\ next_token(lexer).token = Eof
    /\ lexer' = next_token(lexer).l
    /\ tokens' = Append(tokens, Eof)
    /\ lexed' = [kind |-> "Ok"]
    /\ UNCHANGED parsed
    /\ UNCHANGED genVars
    /\ UNCHANGED runVars

\* next_token returned an error: tokenize returns it, the tokens are dropped.
LexFail ==
    /\ Tokenizing
    /\ ~next_token(lexer).ok
    /\ lexed' = [kind |-> "Err", message |-> next_token(lexer).message,
                 position |-> next_token(lexer).position]
    /\ tokens' = <<>>
    /\ UNCHANGED <<lexer, parsed>>
    /\ UNCHANGED genVars
    /\ UNCHANGED runVars

\* Parser::new(tokens).parse()
Parse ==
    /\ lexed.kind \in {"Ok", "given"}
    /\ parsed.kind = "none"
    /\ parsed' = parse(Parser_new(tokens))
    /\ UNCHANGED <<lexer, tokens, lexed>>
    /\ UNCHANGED genVars
    /\ UNCHANGED runVars

FrontNext == LexToken \/ LexEof \/ LexFail \/ Parse

SpecFront == FrontInit /\ [][FrontNext]_vars

-----------------------------------------------------------------------------
(* The grammar of spec section 4.2, as a recogniser independent of the     *)
(* parser.  t is a sequence of token kinds (without Eof), positions are    *)
(* zero-based.  G(nt, t, i) is the set of positions j such that t[i..j) is *)
(* derivable from the nonterminal nt, together with More when t from i to  *)
(* its end is a prefix of a longer sequence derivable from nt.             *)

More == -1

\* The terminal k at position i.
GTerm(t, i, k) ==
    IF i >= Len(t) THEN {More} ELSE IF t[i + 1] = k THEN {i + 1} ELSE {}

RECURSIVE G(_, _, _)

\* After a position of S: the nonterminal nt.
GSeq(t, S, nt) == UNION {IF j = More THEN {More} ELSE G(nt, t, j) : j \in S}

\* After a position of S: the terminal k.
GSeqTerm(t, S, k) == UNION {IF j = More THEN {More} ELSE GTerm(t, j, k) : j \in S}

\* After a position of S: the terminal k, or nothing.
GOpt(t, S, k) == S \cup GSeqTerm(t, S, k)

\* The operators of precedence level n: 1 equality, 2 comparison, 3 term,
\* 4 factor.
LevelOps ==
    <<{"Equal", "NotEqual"}, {"Less", "Greater"}, {"Plus", "Minus"}, {"Multiply", "Divide"}>>

LevelNames == <<"equality", "comparison", "term", "factor", "primary">>

\* After a position of S: (op operand)* at level n.
RECURSIVE GStar(_, _, _)
GStar(t, S, n) ==
    S \cup UNION {IF j = More THEN {}
                  ELSE IF j >= Len(t) THEN {More}
                  ELSE IF t[j + 1] \in LevelOps[n]
                       THEN GStar(t, G(LevelNames[n + 1], t, j + 1), n)
                       ELSE {} : j \in S}

\* statement* from position i.
RECURSIVE GStatements(_, _)
GStatements(t, i) ==
    {i} \cup UNION {IF j = More THEN {More} ELSE GStatements(t, j) :
                        j \in G("statement", t, i)}

G(nt, t, i) ==
    CASE nt = "program" -> GStatements(t, i)
      [] nt = "statement" ->
           G("let_stmt", t, i) \cup G("assign_stmt", t, i) \cup G("print_stmt", t, i)
           \cup G("if_stmt", t, i) \cup G("while_stmt", t, i)
      [] nt = "let_stmt" ->
           GOpt(t, GSeq(t, GSeqTerm(t, GSeqTerm(t, GOpt(t, GTerm(t, i, "Let"), "Mut"),
                                                "Identifier"), "Assign"),
                        "expression"), "Semicolon")
      [] nt = "assign_stmt" ->
           GOpt(t, GSeq(t, GSeqTerm(t, GTerm(t, i, "Identifier"), "Assign"), "expression"),
                "Semicolon")
      [] nt = "print_stmt" ->
           GOpt(t, GSeqTerm(t, GSeq(t, GSeqTerm(t, GTerm(t, i, "Print"), "LeftParen"),
                                    "expression"), "RightParen"),
                "Semicolon")
      [] nt = "if_stmt" -> GSeq(t, GSeq(t, GTerm(t, i, "If"), "expression"), "block")
      [] nt = "while_stmt" -> GSeq(t, GSeq(t, GTerm(t, i, "While"), "expression"), "block")
      [] nt = "block" ->
           GSeqTerm(t, GSeq(t, GTerm(t, i, "LeftBrace"), "program"), "RightBrace")
      [] nt = "expression" -> G("equality", t, i)
      [] nt = "equality" -> GStar(t, G("comparison", t, i), 1)
      [] nt = "comparison" -> GStar(t, G("term", t, i), 2)
      [] nt = "term" -> GStar(t, G("factor", t, i), 3)
      [] nt = "factor" -> GStar(t, G("primary", t, i), 4)
      [] nt = "primary" ->
           GTerm(t, i, "Number") \cup GTerm(t, i, "Identifier")
           \cup GSeqTerm(t, GSeq(t, GTerm(t, i, "LeftParen"), "expression"), "RightParen")

\* t is derivable from program.
Derivable(t) == Len(t) \in G("program", t, 0)

\* t is a prefix of a sequence derivable from program.
Viable(t) == G("program", t, 0) \cap {Len(t), More} # {}

\* The zero-based index of the first token of t, or of the Eof after t, that no
\* sequence derivable from program has after the tokens before it.
FirstUnacceptable(t) ==
    CHOOSE p \in 0..Len(t) :
        /\ p = Len(t) \/ ~Viable(SubSeq(t, 1, p + 1))
        /\ \A q \in 0..(p - 1) : Viable(SubSeq(t, 1, q + 1))

-----------------------------------------------------------------------------
(* Properties.                                                             *)

\* The head position the emitted program leaves the machine at when started
\* at 0: the '>' emitted minus the '<' emitted.
HeadOf(out) ==
    Cardinality({i \in 1..Len(out) : out[i] = ">"})
    - Cardinality({i \in 1..Len(out) : out[i] = "<"})

Min(a, b) == IF a < b THEN a ELSE b

Max(a, b) == IF a > b THEN a ELSE b

\* Over s[lo..hi]: the number of '[' minus the number of ']' (sum), and the
\* least (min) and greatest (max) of that difference over the prefixes.
RECURSIVE BracketScan(_, _, _)
BracketScan(s, lo, hi) ==
    IF lo > hi
    THEN [sum |-> 0, min |-> 0, max |-> 0]
    ELSE IF lo = hi
         THEN LET d == IF s[lo] = "[" THEN 1 ELSE IF s[lo] = "]" THEN -1 ELSE 0
              IN  [sum |-> d, min |-> Min(0, d), max |-> Max(0, d)]
         ELSE LET mid == (lo + hi) \div 2
                  a == BracketScan(s, lo, mid)
                  b == BracketScan(s, mid + 1, hi)
              IN  [sum |-> a.sum + b.sum,
                   min |-> Min(a.min, a.sum + b.min),
                   max |-> Max(a.max, a.sum + b.max)]

Alphabet == {"+", "-", "<", ">", "[", "]", "."}

\* C14: generate returns a Brainfuck string for every Program: every operator
\* evaluate_expression dispatches on, Mul and Div included, is lowered by an
\* arm of its match.
C14_GenerateTotal == no_arm = {}

\* C1: after every generator operation the model head (memory_ptr) equals the
\* runtime head implied by the output emitted so far ('>' minus '<', from 0).
C1_HeadModel == memory_ptr = HeadOf(output)

\* C2: no two distinct names of the variables map are bound to the same cell.
C2_UniqueAddresses ==
    \A a \in DOMAIN variables, b \in DOMAIN variables :
        a # b => variables[a] # variables[b]

\* C3: an address returned by get_temp_addr is never the address of a name
\* bound in the variables map at that moment.
C3_TempsDisjoint == temp_clash = {}

\* C3 witness: a name is bound at or above the temp base (a cell that was
\* a temp before), and temps were issued after it was bound.
C3_Witness ==
    \E n \in DOMAIN variables :
        variables[n] >= TempBase /\ next_temp_addr > variables[n] + 1

\* C4: the first Let binds address 0 and every later Let binds an address
\* strictly greater than every address bound by an earlier Let.
C4_BumpFromZero ==
    /\ Len(let_log) > 0 => let_log[1] = 0
    /\ \A i \in 1..Len(let_log), j \in 1..Len(let_log) :
           i < j => let_log[i] < let_log[j]

\* C5: in the output of generate every prefix holds at least as many '[' as
\* ']', and the whole output holds equally many.
C5_Balanced ==
    LET b == BracketScan(output, 1, Len(output))
    IN  b.min >= 0 /\ b.sum = 0

\* C5 witness: an output with loops nested inside a statement's loop.
C5_Witness ==
    LET b == BracketScan(output, 1, Len(output))
    IN  b.max >= 2 /\ b.sum = 0

\* C6: every character of the output of generate is one of + - < > [ ] .
\* (so ',' is never emitted).
C6_Alphabet == \A i \in 1..Len(output) : output[i] \in Alphabet

\* C6 witness: an output in which each of the seven instructions occurs.
C6_Witness == {output[i] : i \in 1..Len(output)} = Alphabet

\* The run is of the program p.
Running(p) == job.kind = "program" /\ job.program = p

\* C7: the code emitted for `let x = v; print(x);`, run on the reference
\* machine, terminates and writes exactly the single byte v.
C7_LetPrint ==
    \A v \in Literals :
        Running(LetPrint(v)) =>
            /\ status # "underflow"
            /\ status = "halted" => stdout = <<v>>

\* a op b in 8-bit arithmetic.
Arith(a, operator, b) ==
    IF operator = "Add" THEN (a + b) % CellValues ELSE (a + CellValues - b) % CellValues

\* C8: the code emitted for `let x = a; let y = b; let z = x op y; print(z);`
\* with op + or -, run on the reference machine, writes exactly one byte,
\* (a op b) mod 256.
C8_LetArith ==
    \A c \in ArithCases :
        Running(LetArith(c[1], c[2], c[3])) =>
            /\ status # "underflow"
            /\ status = "halted" => stdout = <<Arith(c[1], c[2], c[3])>>

\* C9: the code emitted for `let x = 1; if x == 1 { let y = 88; print(y); }`
\* terminates with stdout exactly the byte 88; with `let x = 0`, stdout is empty.
C9_LetIf ==
    \A v \in {0, 1} :
        Running(LetIf(v)) =>
            /\ status # "underflow"
            /\ status = "halted" => stdout = IF v = 1 THEN <<88>> ELSE <<>>

\* The state set_value(addr, value) is documented to leave: value in addr,
\* 0 in addr+1, the runtime head at addr (where the model head is).
SetValueDone ==
    /\ Cell(tape, job.addr) = job.value
    /\ Cell(tape, job.addr + 1) = 0
    /\ head = job.addr
    /\ head = memory_ptr

\* C10 as stated: set_value(addr, v), 0 <= v <= 255, executed with the runtime
\* head at the model head, leaves v in addr, 0 in addr+1 and the head at addr,
\* whatever the prior contents of addr and addr+1.
C10_SetValueAnyPrior ==
    job.kind = "set_value" /\ status = "halted" => SetValueDone

\* C10 amended: the same when cell addr+1 holds 0 beforehand, whatever the
\* prior content of addr; the head never leaves the tape on the way.
C10_SetValue ==
    job.kind = "set_value" /\ Cell(job.tape0, job.addr + 1) = 0 =>
        /\ status # "underflow"
        /\ status = "halted" => SetValueDone

\* C10 witness: a finished set_value of a decomposed value (>= 10) over a
\* non-zero prior content of addr, reached from the right of addr.
C10_Witness ==
    /\ job.kind = "set_value"
    /\ status = "halted"
    /\ job.value >= 10
    /\ Cell(job.tape0, job.addr) # 0
    /\ Cell(job.tape0, job.addr + 1) = 0
    /\ job.head0 > job.addr
    /\ SetValueDone

\* The (first) copy_value of the job is of a cell into another cell.
CopyDistinct == job.kind = "copy_value" /\ job.from # job.to

\* The state copy_value(from, to) is documented to leave: from as it was, to
\* equal to it, the temp 0.
CopyValueDone ==
    /\ Cell(tape, job.from) = job.v
    /\ Cell(tape, job.to) = job.v
    /\ Cell(tape, job.temp) = 0
    /\ head = memory_ptr

\* C11: for every (from, to) the generator calls copy_value with, the emitted
\* fragment leaves from with its original value, to equal to it and the temp
\* 0; a second copy_value(from, to) leaves from unchanged.
C11_CopyValue ==
    job.kind = "copy_value" =>
        /\ status # "underflow"
        /\ status = "halted" => CopyValueDone

\* The operands of the job's call keep their values and the runtime head is
\* where the model head is.
OperandsKept ==
    /\ Cell(tape, job.left) = job.l
    /\ Cell(tape, job.right) = job.r
    /\ head = memory_ptr

\* C12: for distinct cells L, R and a fresh result cell, add_values(result,
\* L, R) leaves result = (L + R) mod 256 and sub_values(result, L, R) leaves
\* result = (L - R) mod 256; L and R keep their values and the runtime head
\* equals the model head.
C12_AddSub ==
    job.kind \in {"add_values", "sub_values"} /\ job.left # job.right =>
        /\ status # "underflow"
        /\ status = "halted" =>
               /\ Cell(tape, job.result) =
                      Arith(job.l, IF job.kind = "add_values" THEN "Add" ELSE "Sub", job.r)
               /\ OperandsKept

\* C12 witness: a finished sub_values whose difference is below 0, over a
\* non-zero prior content of the result cell.
C12_Witness ==
    /\ job.kind = "sub_values"
    /\ status = "halted"
    /\ job.left # job.right
    /\ job.l < job.r
    /\ Cell(job.tape0, job.result) # 0
    /\ Cell(tape, job.result) = job.l + CellValues - job.r

\* C13: compare_equal(result, L, R) leaves result = 1 if the contents of L
\* and R are equal and 0 otherwise, whatever the prior content of result; L
\* and R keep their values.
C13_CompareEqual ==
    job.kind = "compare_equal" =>
        /\ status # "underflow"
        /\ status = "halted" =>
               /\ Cell(tape, job.result) = IF job.l = job.r THEN 1 ELSE 0
               /\ OperandsKept

\* C13 witness: a finished compare_equal of equal non-zero contents in
\* distinct cells, over a non-zero prior content of the result cell.
C13_Witness ==
    /\ job.kind = "compare_equal"
    /\ status = "halted"
    /\ job.left # job.right
    /\ job.l = job.r
    /\ job.l # 0
    /\ Cell(job.tape0, job.result) # 0
    /\ Cell(tape, job.result) = 1

\* The value of the condition cond when x holds xv (a comparison is 1 or 0).
CondValue(cond, xv) ==
    LET val(e) == IF e.type = "Number" THEN e.n ELSE xv
    IN  IF cond.type # "Binary" THEN val(cond)
        ELSE CASE cond.operator = "Equal" -> IF val(cond.left) = val(cond.right) THEN 1 ELSE 0
               [] cond.operator = "NotEqual" ->
                    IF val(cond.left) # val(cond.right) THEN 1 ELSE 0
               [] cond.operator = "Greater" -> IF val(cond.left) > val(cond.right) THEN 1 ELSE 0

\* What `while cond { print(x); x = x - 1; }` writes when x starts at xv and
\* the body runs again exactly when cond is non-zero on the value x then has.
RECURSIVE Written(_, _)
Written(cond, xv) ==
    IF CondValue(cond, xv) = 0
    THEN <<>>
    ELSE <<xv>> \o Written(cond, (xv + CellValues - 1) % CellValues)

\* The run is of the code of a While statement.
RunningWhile == job.kind = "stmt" /\ job.stmt.type = "While"

\* s is a prefix of t.
IsPrefix(s, t) == Len(s) <= Len(t) /\ \A i \in 1..Len(s) : s[i] = t[i]

\* C19: in the code emitted for While{condition, body}, after each execution
\* of the body the body runs again if and only if the condition, on the values
\* the variables then have, is non-zero, for every form of the condition: with
\* the body `print(x); x = x - 1;` the run writes x, x - 1, ... for as long
\* as the condition is non-zero, and nothing else.
C19_While ==
    RunningWhile =>
        /\ status # "underflow"
        /\ IsPrefix(stdout, Written(job.stmt.condition, job.xv))
        /\ status = "halted" => stdout = Written(job.stmt.condition, job.xv)

\* The run is of the code of an If statement.
RunningIf == job.kind = "stmt" /\ job.stmt.type = "If"

\* The machine is at the ']' that closes the statement's loop.
AtClose == status = "running" /\ ip = Len(code)

\* C20: in the code emitted for If{condition, body} the loop is entered only
\* when the condition is non-zero, and is left after one pass of the body: the
\* cell tested by the closing ']' is 0, so a body that prints once has
\* printed at most once, and exactly once when the run ends and the condition
\* was non-zero.
C20_IfOnce ==
    RunningIf =>
        /\ ip = job.open + 1 => CondValue(job.stmt.condition, job.xv) # 0
        /\ AtClose => Cell(tape, head) = 0
        /\ Len(stdout) <= 1
        /\ status = "halted" =>
               Len(stdout) = IF CondValue(job.stmt.condition, job.xv) # 0 THEN 1 ELSE 0

\* C20 witness: the run of an If whose body holds a Let has ended after
\* the body ran.
C20_Witness ==
    /\ RunningIf
    /\ status = "halted"
    /\ job.stmt.body[1].type = "Let"
    /\ Len(stdout) = 1

\* C21: each time the fragment emitted for Number(n), 0 <= n <= 255, has been
\* executed, on the first pass of an enclosing While and on every later one,
\* the cell whose address evaluate_expression returned holds n.
C21_LiteralHolds ==
    job.kind = "literal" /\ status = "running" /\ ip = job.last + 1 =>
        Cell(tape, job.addr) = job.n

\* C22: executing the code emitted for an If whose condition reads x and
\* whose body does not assign x leaves x with the value it had (`if x { .. }`,
\* `if x > 0 { .. }`, `if x == 2 { .. }`).
C22_ConditionKeeps ==
    RunningIf /\ "x" \in DOMAIN job.g.variables =>
        /\ status # "underflow"
        /\ status = "halted" => Cell(tape, job.g.variables["x"]) = job.xv

\* C23: for every Program, executing the code generate emits from head 0 on
\* a tape unbounded to the right only never moves the head below cell 0.
C23_NoUnderflow == job.kind = "program" => status # "underflow"

\* C24: lowering Assign{name, value} when name is not in `variables` leaves
\* the output buffer, the model head, the variable map and the temp allocator
\* unchanged: the value expression is not evaluated.
C24_AssignUnbound ==
    \A name \in Names \ DOMAIN variables, value \in AssignValues :
        LET g == call(Gen, "visit_stmt", <<assign(name, value)>>)
        IN  /\ g.output = output
            /\ g.memory_ptr = memory_ptr
            /\ g.variables = variables
            /\ g.next_temp_addr = next_temp_addr

\* C24 witness: one statement has been lowered and nothing is emitted, bound
\* or issued; every statement but an Assign to an unbound name emits code.
C24_Witness ==
    /\ stmts = 1
    /\ output = <<>>
    /\ memory_ptr = 0
    /\ DOMAIN variables = {}
    /\ next_temp_addr = TempBase

\* C25: the fragment emitted for Binary{L, NotEqual, R} leaves the result
\* cell 0 if the contents of L and R are equal and 1 otherwise, with the flip
\* temp at 0, for arbitrary 8-bit contents of L and R and on every execution
\* of the fragment inside a loop (observed where the loop's print is about to
\* write the result of `x != k`).
C25_NotEqual ==
    /\ job.kind = "not_equal" =>
           /\ status # "underflow"
           /\ status = "halted" =>
                  /\ Cell(tape, job.result) = IF job.l = job.r THEN 0 ELSE 1
                  /\ Cell(tape, next_temp_addr - 1) = 0
    /\ job.kind = "flip" =>
           /\ status # "underflow"
           /\ Executing(".") =>
                  /\ Cell(tape, head) = IF Cell(tape, job.g.variables["x"]) = job.k
                                         THEN 0 ELSE 1
                  /\ Cell(tape, job.flip) = 0
           /\ status = "halted" => Cell(tape, job.flip) = 0

\* C25 witness: the loop has ended after three executions of the fragment of
\* `x != 2`, on unequal, equal and unequal contents.
C25_Witness ==
    /\ job.kind = "flip"
    /\ status = "halted"
    /\ stdout = <<1, 0, 1>>

\* C26: at every call of set_value(addr, v) the generator makes, addr is the
\* temp issued last, so addr+1 has not been issued by the temp allocator, and
\* addr+1 is not the address of a bound variable.
C26_ScratchIdle ==
    \A c \in set_value_log : c.latest /\ c.addr + 1 \notin c.bound

\* C26 witness: set_value was called with a value that uses the scratch cell
\* while a variable was bound in the temp region, below addr.
C26_Witness ==
    \E c \in set_value_log :
        /\ c.value >= 10
        /\ c.latest
        /\ \E b \in c.bound : b >= TempBase /\ b < c.addr
        /\ c.addr + 1 \notin c.bound

\* C27: each call of generate starts from the initial generator state, so
\* generate(P) returns the string a new generator returns for P, whether or
\* not generate was called before on the same instance.
C27_PerInvocation ==
    \A i \in 1..Len(returned) :
        returned[i].output = generate(new, returned[i].program).output

\* The source of the run, when it started from a source text.
FromSource == job.kind = "source"

\* The characters a token may hold by the lexer's rules as specified: the
\* operator and delimiter characters, ASCII digits, ASCII letters and '_'.
TokenChar(c) ==
    \/ c \in {"=", "!", "+", "-", "<", ">", ";", "{", "}", "(", ")", "_"}
    \/ is_ascii_digit(c)
    \/ c \in AsciiLetters

\* The zero-based positions of the characters of source that are neither
\* whitespace nor a character a token may hold.
Offending(source) ==
    {i - 1 : i \in {k \in 1..Len(source) :
                        ~is_whitespace(source[k]) /\ ~TokenChar(source[k])}}

\* C15: tokenize fails with a LexError whenever the character after skipped
\* whitespace is none of = ! + - < > ; { } ( ), an ASCII digit, an ASCII
\* letter or '_' (identifiers hold [A-Za-z0-9_] only, so a letter outside
\* ASCII is rejected wherever it stands); the position reported is the number
\* of characters before the offending one.
C15_LexerRejects ==
    FromSource =>
        /\ lexed.kind = "Ok" => Offending(job.source) = {}
        /\ lexed.kind = "Err" /\ lexed.message = "Unexpected character" =>
               /\ lexed.position \in Offending(job.source)
               /\ \A i \in Offending(job.source) : lexed.position <= i

\* The operator tokens of source by the rule for '=' and '!': left to right,
\* "==" is Equal and any other '=' Assign, "!=" is NotEqual and any other '!'
\* Exclamation.
RECURSIVE OperatorScan(_)
OperatorScan(source) ==
    IF source = <<>>
    THEN <<>>
    ELSE IF Head(source) \in {"=", "!"}
         THEN IF Len(source) >= 2 /\ source[2] = "="
              THEN <<IF Head(source) = "=" THEN "Equal" ELSE "NotEqual">>
                   \o OperatorScan(SubSeq(source, 3, Len(source)))
              ELSE <<IF Head(source) = "=" THEN "Assign" ELSE "Exclamation">>
                   \o OperatorScan(Tail(source))
         ELSE OperatorScan(Tail(source))

\* The kinds of the tokens of toks that are of a kind in kinds, in order.
KindsIn(toks, kinds) ==
    LET F[i \in 0..Len(toks)] ==
            IF i = 0 THEN <<>>
            ELSE IF toks[i].type \in kinds THEN Append(F[i - 1], toks[i].type) ELSE F[i - 1]
    IN  F[Len(toks)]

\* C16: in a successful tokenize each "==" is one Equal and any other '=' an
\* Assign, each "!=" one NotEqual and any other '!' an Exclamation; the
\* sequence returned ends with Eof and holds no other Eof; "== != < >" yields
\* [Equal, NotEqual, Less, Greater, Eof].
C16_TwoCharOperators ==
    FromSource =>
        /\ \A i \in 1..Len(tokens) : tokens[i] = Eof => lexed.kind = "Ok" /\ i = Len(tokens)
        /\ lexed.kind = "Ok" =>
               /\ tokens[Len(tokens)] = Eof
               /\ KindsIn(tokens, {"Equal", "Assign", "NotEqual", "Exclamation"})
                      = OperatorScan(job.source)
               /\ job.source = OperatorsSource =>
                      tokens = <<Token("Equal"), Token("NotEqual"), Token("Less"),
                                 Token("Greater"), Eof>>

\* C16 witness: a tokenize that returned a sequence with an Equal, a
\* NotEqual and an Assign.
C16_Witness ==
    /\ FromSource
    /\ lexed.kind = "Ok"
    /\ {"Equal", "NotEqual", "Assign"} \subseteq {tokens[i].type : i \in 1..Len(tokens)}

\* The program of `let x = 1 + 2 * 3;`.
PrecedenceProgram ==
    <<let_stmt(<<"x">>, FALSE,
               Binary(Number(1), "Add", Binary(Number(2), "Mul", Number(3))))>>

\* C17: tokenizing and then parsing `let x = 1 + 2 * 3;` succeeds and yields
\* exactly one Let whose value is Binary(Number(1), Add, Binary(Number(2),
\* Mul, Number(3))).
C17_Precedence ==
    FromSource /\ job.source = PrecedenceSource =>
        /\ lexed.kind # "Err"
        /\ parsed.kind # "Err"
        /\ parsed.kind = "Ok" => parsed.program = PrecedenceProgram

\* The kinds of the tokens before the final Eof.
Kinds(toks) == [i \in 1..(Len(toks) - 1) |-> toks[i].type]

\* C18: parse returns a Program for every token sequence derivable from the
\* grammar, and for every other one a ParseError, and no Program, whose
\* position is the index in the token vector of the first token that could
\* not be accepted.
C18_ParseErrors ==
    parsed.kind # "none" =>
        IF Derivable(Kinds(tokens))
        THEN parsed.kind = "Ok"
        ELSE parsed.kind = "Err" /\ parsed.position = FirstUnacceptable(Kinds(tokens))

\* C18 witness: a block that misses its '}' was rejected at the Eof, after
\* every token before it was accepted.
C18_Witness ==
    /\ parsed.kind = "Err"
    /\ parsed.position = Len(tokens) - 1
    /\ parsed.message = "Unexpected token"
    /\ Len(tokens) > 4
    /\ \E i \in 1..Len(tokens) :
           /\ tokens[i].type = "LeftBrace"
           /\ \A k \in i..Len(tokens) : tokens[k].type # "RightBrace"

====
